---- MODULE Spec2Model ----
(***************************************************************************)
(* Model of the lxEventServer relay (server.js): a catalog of demozones    *)
(* is loaded once, one upstream socket.io client is opened per demozone,   *)
(* downstream (LX) clients connect with a demozone query parameter, and    *)
(* every 'offtrack' event of an upstream is forwarded to the LX clients    *)
(* registered for that demozone.                                           *)
(*                                                                         *)
(* Strings are sequences of one-character strings so that toUpperCase is   *)
(* computed character by character.                                        *)
(***************************************************************************)
EXTENDS Naturals, Sequences, FiniteSets, TLC

\* ------------------------------------------------------------------ bounds
MaxConn   == 2   \* accepted LX connections in one run
MaxEvents == 2   \* upstream 'offtrack' events in one run

\* ------------------------------------------------------------------ inputs
\* socket.handshake.query.demozone when the query has no such parameter
Undefined == <<"<undefined>">>

\* the catalogs the directory service may return (item ids in order): one or
\* two zones, upper-case or not, distinct or not -- the code checks none of it
Catalogs == { << <<"A", "B">> >>,
              << <<"A", "B">>, <<"B">> >>,
              << <<"a", "b">> >>,
              << <<"a", "b">>, <<"A", "B">> >>,
              << <<"B">>, <<"B">> >> }

\* what the directory service may answer instead of a non-empty catalog:
\* err is the callback's err argument, res tells whether a response object
\* came with it and what its body is ("none": no response object, "text": a
\* body that is not JSON, "json": a JSON body whose items are given)
FailedFetches == { [ err |-> TRUE,  res |-> "none", items |-> <<>> ],
                   [ err |-> TRUE,  res |-> "text", items |-> <<>> ],
                   [ err |-> TRUE,  res |-> "json", items |-> <<>> ],
                   [ err |-> FALSE, res |-> "text", items |-> <<>> ],
                   [ err |-> FALSE, res |-> "json", items |-> <<>> ] }

\* values of the demozone query parameter of an inbound connection
ZoneParams == { Undefined, <<>>, <<"A", "B">>, <<"a", "b">>, <<"A", "b">>, <<"B">> }

\* Event payloads are opaque to the relay; every upstream event carries its own
\* message id, so a payload is identified by its arrival number (see Payloads
\* below the state).

\* ------------------------------------------------------------------- state
VARIABLES
  pc,           \* "fetch" before the catalog callback, then "running", or
                \* "exited" (process.exit(2)), or "thrown" (the callback threw:
                \* logged by the uncaughtException handler, the series never resumes)
  demozonesId,  \* the catalog: sequence of item ids, as returned
  cnxId,        \* last allocated LX connection id
  lxClients,    \* registry: sequence of [id, demozone]
  upstreams,    \* the d objects, one per catalog item: [demozone, events, lastEvent]
  ankiClients,  \* sequence of indexes into upstreams: the d objects pushed on 'connect'
  connected,    \* per upstream: the socket.io client is connected
  open,         \* ids of accepted LX connections whose transport is open
  now,          \* clock read by moment()
  received,     \* history: per accepted id, the payloads emitted to its socket
  joinedAt,     \* history: per accepted id, Len(log) when it was accepted
  zoneOf,       \* history: per accepted id, the demozone it was registered under
  allocated,    \* history: the ids given to accepted connections, in acceptance order
  leftAt,       \* history: per disconnected id, Len(log) when it disconnected
  log,          \* history: the upstream events so far, [i, zone, msg]
  lastOp        \* history: the callback that ran last, with its argument

vars == << pc, demozonesId, cnxId, lxClients, upstreams, ankiClients, connected,
           open, now, received, joinedAt, zoneOf, allocated, leftAt, log, lastOp >>

\* the payloads the next upstream event may carry
Payloads == { Len(log) + 1 }

\* d.lastEvent before the first forwarded event
Null == <<>>

\* moment().format(...): the clock reading rendered as a (non-empty) string
format(t) == << t >>

\* ----------------------------------------------------------- pure helpers
toUpperCaseChar(c) ==
  CASE c = "a" -> "A"
    [] c = "b" -> "B"
    [] OTHER   -> c

toUpperCase(s) == [ i \in 1..Len(s) |-> toUpperCaseChar(s[i]) ]

\* demozonesId.indexOf(x) !== -1
Includes(ids, x) == \E i \in 1..Len(ids) : ids[i] = x

\* variant: any non-empty parameter passes, the catalog is not consulted
isValidNoCatalog(ids, demozone) ==
  ~ (demozone = Undefined \/ demozone = <<>> \/ Len(ids) = 0)

isValid(ids, demozone) ==
  IF demozone = Undefined \/ demozone = <<>> \/ Len(ids) = 0
  THEN FALSE
  ELSE Includes(ids, toUpperCase(demozone))


\* variant: the zone predicate is dropped, every client matches
filterNoZone(clients, zone) == clients

\* _.filter(lxClients, { 'demozone': zone })
filter(clients, zone) == SelectSeq(clients, LAMBDA c : c.demozone = zone)

\* variant: the predicate is the connection's demozone instead of its id
removeByZoneOfId(clients, id) ==
  SelectSeq(clients, LAMBDA c :
    \A k \in 1..Len(clients) : clients[k].id = id => c.demozone # clients[k].demozone)

\* variant: the entry is left in the list
removeNothing(clients, id) == clients

\* variant: splice(findIndex(id), 1), which cuts the last entry when the id is
\* not found (index -1)
removeBySplice(clients, id) ==
  IF \E k \in 1..Len(clients) : clients[k].id = id
  THEN SelectSeq(clients, LAMBDA c : c.id # id)
  ELSE SubSeq(clients, 1, Len(clients) - 1)

\* _.remove(lxClients, { 'id': id })
removeById(clients, id) == SelectSeq(clients, LAMBDA c : c.id # id)

\* _.remove(ankiClients, { 'demozone': zone }): ankiClients holds references to
\* the d objects, so the match is on the referenced object's demozone
removeByZone(refs, ds, zone) == SelectSeq(refs, LAMBDA k : ds[k].demozone # zone)

\* the ids of the entries of a client list
Ids(clients) == { clients[k].id : k \in 1..Len(clients) }

\* variant: the id is derived from the registry size
nextCnxIdFromLength(clients, last) == Len(clients) + 1

\* ++cnxId
nextCnxId(clients, last) == last + 1

\* the cnx object of an accepted connection (timestamps are not modelled)
newCnx(id, demozone) == [ id |-> id, demozone |-> toUpperCase(demozone) ]

\* the d object built for one catalog item
newUpstream(zoneId) == [ demozone |-> zoneId, events |-> 0, lastEvent |-> Null ]

\* variant: every event is counted, matched or not
forwardsAlways(matches) == TRUE

\* the branch of the 'offtrack' handler that counts and forwards
forwards(matches) == Len(matches) > 0

\* client.socket.emit(namespace, msg): what reaches the wire
emitted(msg) == msg

\* variant: every match adds to the counter
countPerMatch(events, matches) == events + Len(matches)

\* d.events++
countEvent(events, matches) == events + 1

\* variant: the loop ends at the first match whose send fails
reachedUntilFailure(matches, lost) ==
  SelectSeq(matches, LAMBDA c :
    \A k \in 1..Len(matches) :
      matches[k].id \in lost => \E j \in 1..k : matches[j] = c /\ j < k)

\* _.forEach(matches, ...): the matches the loop calls emit for; emit queues the
\* packet or drops it, so a lost send does not end the loop
reached(matches, lost) == matches

\* variant: the payload is put in front of what the socket was sent before
deliverFirst(sent, n, msg) == [ k \in 1..n |-> emitted(msg) ] \o sent

\* what a socket has been sent after n emit calls with msg
deliver(sent, n, msg) == sent \o [ k \in 1..n |-> emitted(msg) ]

\* the emit calls of one fan-out, per accepted connection
fanOut(sent, matches, msg) ==
  [ id \in DOMAIN sent |->
      deliver(sent[id],
              Cardinality({ k \in 1..Len(matches) : matches[k].id = id }), msg) ]

\* variant: the cnx object is pushed twice
registerTwice(clients, cnx) == clients \o << cnx, cnx >>

\* lxClients.push(cnx)
register(clients, cnx) == Append(clients, cnx)

\* UTF-16 code unit of a character, the order JavaScript compares strings by
charCode(c) ==
  CASE c = "A" -> 65
    [] c = "B" -> 66
    [] c = "a" -> 97
    [] c = "b" -> 98
    [] OTHER   -> 0

\* s <= t for two strings, as JavaScript compares them
RECURSIVE stringLeq(_, _)
stringLeq(s, t) ==
  IF Len(s) = 0 THEN TRUE
  ELSE IF Len(t) = 0 THEN FALSE
  ELSE IF charCode(Head(s)) # charCode(Head(t)) THEN charCode(Head(s)) < charCode(Head(t))
  ELSE stringLeq(Tail(s), Tail(t))

\* one insertion step of a stable ascending sort
RECURSIVE insertSorted(_, _)
insertSorted(sorted, x) ==
  IF Len(sorted) = 0 THEN << x >>
  ELSE IF stringLeq(Head(sorted), x)
       THEN << Head(sorted) >> \o insertSorted(Tail(sorted), x)
       ELSE << x >> \o sorted

\* _.sortBy(list)
RECURSIVE sortBy(_)
sortBy(list) ==
  IF Len(list) = 0 THEN <<>>
  ELSE insertSorted(sortBy(SubSeq(list, 1, Len(list) - 1)), list[Len(list)])

\* body of GET /demozones: the demozone of every entry of ankiClients, sorted
demozonesReport(refs, ds) == sortBy([ k \in 1..Len(refs) |-> ds[refs[k]].demozone ])

\* the catalog callback (steps of async.series that follow it included):
\* JSON.parse(res.body) comes first and throws without a response object or
\* with a body that is not JSON; then err, then an empty list, abort through
\* the final callback's process.exit(2)
fetchOutcome(resp) ==
  IF resp.res # "json" THEN "thrown"
  ELSE IF resp.err THEN "exited"
  ELSE IF Len(resp.items) = 0 THEN "exited"
  ELSE "running"

\* ------------------------------------------------------------------ Init
Init ==
  /\ pc = "fetch"
  /\ demozonesId = <<>>
  /\ cnxId = 0
  /\ lxClients = <<>>
  /\ upstreams = <<>>
  /\ ankiClients = <<>>
  /\ connected = <<>>
  /\ open = {}
  /\ now = 1
  /\ received = <<>>
  /\ joinedAt = <<>>
  /\ zoneOf = <<>>
  /\ allocated = <<>>
  /\ leftAt = << >>
  /\ log = <<>>
  /\ lastOp = [ op |-> "none" ]

\* --------------------------------------------------------------- actions
\* async.series steps 1-4 with a non-empty catalog: the ids are stored as
\* returned, the WS server starts listening, one d object and one upstream
\* socket is created per item (not yet connected).
LoadCatalog(items) ==
  /\ pc = "fetch"
  /\ pc' = fetchOutcome([ err |-> FALSE, res |-> "json", items |-> items ])
  /\ demozonesId' = items
  /\ upstreams' = [ i \in 1..Len(items) |-> newUpstream(items[i]) ]
  /\ connected' = [ i \in 1..Len(items) |-> FALSE ]
  /\ lastOp' = [ op |-> "load" ]
  /\ UNCHANGED << cnxId, lxClients, ankiClients, open, now, received,
                  joinedAt, zoneOf, allocated, leftAt, log >>

\* client.get callback when the fetch failed or the catalog is empty
FetchAborts(resp) ==
  /\ pc = "fetch"
  /\ fetchOutcome(resp) # "running"
  /\ pc' = fetchOutcome(resp)
  /\ lastOp' = [ op |-> "fetch", resp |-> resp ]
  /\ UNCHANGED << demozonesId, cnxId, lxClients, upstreams, ankiClients,
                  connected, open, now, received, joinedAt, zoneOf, allocated,
                  leftAt, log >>

\* variant: the id is allocated before the parameter is validated
OnConnectionEagerId(demozone) ==
  /\ pc = "running"
  /\ cnxId < MaxConn
  /\ cnxId' = cnxId + 1
  /\ IF ~ isValid(demozonesId, demozone)
     THEN /\ lastOp' = [ op |-> "connection", demozone |-> demozone,
                         accepted |-> FALSE, closed |-> TRUE ]
          /\ UNCHANGED << lxClients, open, received, joinedAt, zoneOf, allocated >>
     ELSE LET id  == cnxId + 1
              cnx == [ id |-> id, demozone |-> toUpperCase(demozone) ]
          IN  /\ lxClients' = Append(lxClients, cnx)
              /\ open' = open \cup { id }
              /\ received' = (id :> <<>>) @@ received
              /\ joinedAt' = (id :> Len(log)) @@ joinedAt
              /\ zoneOf' = (id :> cnx.demozone) @@ zoneOf
              /\ allocated' = Append(allocated, id)
              /\ lastOp' = [ op |-> "connection", demozone |-> demozone,
                             accepted |-> TRUE, closed |-> FALSE, id |-> id ]
  /\ UNCHANGED << pc, demozonesId, upstreams, ankiClients, connected, now,
                  leftAt, log >>

\* variant: a new subscriber is first sent the earlier events of its zone
OnConnectionReplays(demozone) ==
  /\ pc = "running"
  /\ IF ~ isValid(demozonesId, demozone)
     THEN /\ lastOp' = [ op |-> "connection", demozone |-> demozone,
                         accepted |-> FALSE, closed |-> TRUE ]
          /\ UNCHANGED << cnxId, lxClients, open, received, joinedAt, zoneOf,
                          allocated >>
     ELSE LET id  == nextCnxId(lxClients, cnxId)
              cnx == newCnx(id, demozone)
          IN  /\ cnxId < MaxConn
              /\ cnxId' = id
              /\ lxClients' = Append(lxClients, cnx)
              /\ open' = open \cup { id }
              /\ received' = (id :> [ k \in 1..Cardinality({ j \in 1..Len(log) : log[j].zone = cnx.demozone }) |->
                                        log[CHOOSE j \in 1..Len(log) :
                                              /\ log[j].zone = cnx.demozone
                                              /\ Cardinality({ h \in 1..j : log[h].zone = cnx.demozone }) = k].msg ])
                              @@ received
              /\ joinedAt' = (id :> Len(log)) @@ joinedAt
              /\ zoneOf' = (id :> cnx.demozone) @@ zoneOf
              /\ allocated' = Append(allocated, id)
              /\ lastOp' = [ op |-> "connection", demozone |-> demozone,
                             accepted |-> TRUE, closed |-> FALSE, id |-> id ]
  /\ UNCHANGED << pc, demozonesId, upstreams, ankiClients, connected, now,
                  leftAt, log >>

\* ws.io.on('connection'): reject and force-close, or register
OnConnection(demozone) ==
  /\ pc = "running"
  /\ IF ~ isValid(demozonesId, demozone)
     THEN /\ lastOp' = [ op |-> "connection", demozone |-> demozone,
                         accepted |-> FALSE, closed |-> TRUE ]
          /\ UNCHANGED << cnxId, lxClients, open, received, joinedAt, zoneOf,
                          allocated >>
     ELSE LET id  == nextCnxId(lxClients, cnxId)
              cnx == newCnx(id, demozone)
          IN  /\ cnxId < MaxConn
              /\ cnxId' = id
              /\ lxClients' = register(lxClients, cnx)
              /\ open' = open \cup { id }
              /\ received' = (id :> <<>>) @@ received
              /\ joinedAt' = (id :> Len(log)) @@ joinedAt
              /\ zoneOf' = (id :> cnx.demozone) @@ zoneOf
              /\ allocated' = Append(allocated, id)
              /\ lastOp' = [ op |-> "connection", demozone |-> demozone,
                             accepted |-> TRUE, closed |-> FALSE, id |-> id ]
  /\ UNCHANGED << pc, demozonesId, upstreams, ankiClients, connected, now,
                  leftAt, log >>

\* socket.on('disconnect') of an accepted connection: the transport has closed
SocketDisconnect(id) ==
  /\ id \in open
  /\ open' = open \ { id }
  /\ lxClients' = removeById(lxClients, id)
  /\ leftAt' = (id :> Len(log)) @@ leftAt
  /\ lastOp' = [ op |-> "disconnect", id |-> id ]
  /\ UNCHANGED << pc, demozonesId, cnxId, upstreams, ankiClients, connected,
                  now, received, joinedAt, zoneOf, allocated, log >>

\* variant: the error handler also removes the registry entry
SocketErrorRemoves(id) ==
  /\ id \in open
  /\ lxClients' = SelectSeq(lxClients, LAMBDA c : c.id # id)
  /\ lastOp' = [ op |-> "error", id |-> id ]
  /\ UNCHANGED << pc, demozonesId, cnxId, upstreams, ankiClients,
                  connected, open, now, received, joinedAt, zoneOf, allocated,
                  leftAt, log >>

\* socket.on('error') of an accepted connection: logged only
SocketError(id) ==
  /\ id \in open
  /\ lastOp' = [ op |-> "error", id |-> id ]
  /\ UNCHANGED << pc, demozonesId, cnxId, lxClients, upstreams, ankiClients,
                  connected, open, now, received, joinedAt, zoneOf, allocated,
                  leftAt, log >>

\* d.socket.on('connect')
UpstreamConnect(i) ==
  /\ i \in DOMAIN upstreams
  /\ ~ connected[i]
  /\ connected' = [ connected EXCEPT ![i] = TRUE ]
  /\ ankiClients' = Append(ankiClients, i)
  /\ lastOp' = [ op |-> "upconnect", i |-> i ]
  /\ UNCHANGED << pc, demozonesId, cnxId, lxClients, upstreams, open, now,
                  received, joinedAt, zoneOf, allocated, leftAt, log >>

\* variant: the d object is dropped on disconnect and starts afresh
UpstreamDisconnectResets(i) ==
  /\ i \in DOMAIN upstreams
  /\ connected[i]
  /\ connected' = [ connected EXCEPT ![i] = FALSE ]
  /\ ankiClients' = SelectSeq(ankiClients, LAMBDA k : upstreams[k].demozone # demozonesId[i])
  /\ upstreams' = [ upstreams EXCEPT ![i] =
                      [ demozone |-> demozonesId[i], events |-> 0, lastEvent |-> Null ] ]
  /\ lastOp' = [ op |-> "updisconnect", i |-> i ]
  /\ UNCHANGED << pc, demozonesId, cnxId, lxClients, open, now,
                  received, joinedAt, zoneOf, allocated, leftAt, log >>

\* d.socket.on('disconnect')
UpstreamDisconnect(i) ==
  /\ i \in DOMAIN upstreams
  /\ connected[i]
  /\ connected' = [ connected EXCEPT ![i] = FALSE ]
  /\ ankiClients' = removeByZone(ankiClients, upstreams, demozonesId[i])
  /\ lastOp' = [ op |-> "updisconnect", i |-> i ]
  /\ UNCHANGED << pc, demozonesId, cnxId, lxClients, upstreams, open, now,
                  received, joinedAt, zoneOf, allocated, leftAt, log >>

\* d.socket.on('offtrack'); lost are the matching subscribers whose peer is
\* gone without the ping timeout having closed the socket yet: the packet
\* emitted to them never arrives
OnOfftrack(i, msg, lost) ==
  /\ i \in DOMAIN upstreams
  /\ connected[i]
  /\ Len(log) < MaxEvents
  /\ LET d       == upstreams[i]
         matches == filter(lxClients, d.demozone)
     IN  /\ lost \subseteq Ids(matches)
         /\ IF forwards(matches)
            THEN /\ upstreams' = [ upstreams EXCEPT
                                     ![i].events = countEvent(d.events, matches),
                                     ![i].lastEvent = format(now) ]
                 /\ now' = now + 1
                 /\ received' = fanOut(received, reached(matches, lost), msg)
            ELSE UNCHANGED << upstreams, now, received >>
         /\ log' = Append(log, [ i |-> i, zone |-> d.demozone, msg |-> msg ])
         /\ lastOp' = [ op |-> "offtrack", i |-> i, msg |-> msg,
                        zone |-> d.demozone,
                        failed |-> lost ]
  /\ UNCHANGED << pc, demozonesId, cnxId, lxClients, ankiClients, connected,
                  open, joinedAt, zoneOf, allocated, leftAt >>

\* ws.app.get(demozonesURI, ...)
GetDemozones ==
  /\ pc = "running"
  /\ lastOp' = [ op |-> "demozones", body |-> demozonesReport(ankiClients, upstreams) ]
  /\ UNCHANGED << pc, demozonesId, cnxId, lxClients, upstreams, ankiClients,
                  connected, open, now, received, joinedAt, zoneOf, allocated,
                  leftAt, log >>

Next ==
  \/ \E items \in Catalogs : LoadCatalog(items)
  \/ \E resp \in FailedFetches : FetchAborts(resp)
  \/ \E demozone \in ZoneParams : OnConnection(demozone)
  \/ \E id \in open : SocketDisconnect(id)
  \/ \E id \in open : SocketError(id)
  \/ \E i \in DOMAIN upstreams : UpstreamConnect(i)
  \/ \E i \in DOMAIN upstreams : UpstreamDisconnect(i)
  \/ \E i \in DOMAIN upstreams, msg \in Payloads, lost \in SUBSET open :
       OnOfftrack(i, msg, lost)
  \/ GetDemozones

Spec == Init /\ [][Next]_vars

\* ============================================================ properties
\* vocabulary of the properties (independent of the operators of the model)
toLowerCaseChar(c) ==
  CASE c = "A" -> "a"
    [] c = "B" -> "b"
    [] OTHER   -> c

EqualsIgnoreCase(s, t) ==
  /\ Len(s) = Len(t)
  /\ \A k \in 1..Len(s) : toLowerCaseChar(s[k]) = toLowerCaseChar(t[k])

CatalogSet == { demozonesId[k] : k \in 1..Len(demozonesId) }

\* the parameter names a catalog zone, in some casing
InCatalogIgnoreCase(p) ==
  /\ p # Undefined
  /\ p # <<>>
  /\ \E z \in CatalogSet : EqualsIgnoreCase(p, z)

Range(f) == { f[k] : k \in DOMAIN f }

\* the registry entries of zone z, as ids
Registered(z) == { lxClients[k].id : k \in { j \in 1..Len(lxClients) : lxClients[j].demozone = z } }

AcceptedIds == DOMAIN received

\* ------------------------------------------------------------------- C1
\* C1: when an upstream event arrives on zone Z, its payload is appended,
\* unmodified, to what every subscriber registered for Z at that moment has
\* been sent, and nothing is sent to any other subscriber.
C1_FanOutToZoneSubscribers ==
  [][ log' # log =>
        LET e == log'[Len(log')]
        IN  \A id \in AcceptedIds :
              received'[id] = IF id \in Registered(e.zone)
                              THEN Append(received[id], e.msg)
                              ELSE received[id] ]_vars

\* two subscribers of different zones are registered, the last callback was an
\* event, and only the subscriber of the event's zone has been sent it
C1_Witness ==
  /\ lastOp.op = "offtrack"
  /\ \E a \in Registered(lastOp.zone) :
       \E k \in 1..Len(lxClients) :
         /\ lxClients[k].demozone # lastOp.zone
         /\ received[a] # <<>>
         /\ received[a][Len(received[a])] = lastOp.msg
         /\ received[lxClients[k].id] = <<>>

\* ------------------------------------------------------------------- C2
\* C2 (as claimed): an event on a zone without registered subscribers
\* increments the zone's event counter, updates its last-event timestamp and
\* delivers nothing.
C2_CountsWithoutSubscribers ==
  [][ (log' # log /\ Registered(log'[Len(log')].zone) = {}) =>
        LET i == log'[Len(log')].i
        IN  /\ upstreams'[i].events = upstreams[i].events + 1
            /\ upstreams'[i].lastEvent # upstreams[i].lastEvent
            /\ received' = received ]_vars

\* C2 (amended): an event on a zone without registered subscribers leaves the
\* zone's event counter and last-event timestamp unchanged and delivers
\* nothing; the counter is incremented by one, and the timestamp set to the
\* current time, exactly for the events that find at least one subscriber.
C2_CountsOnlyForwardedEvents ==
  [][ log' # log =>
        LET e == log'[Len(log')]
        IN  IF Registered(e.zone) = {}
            THEN upstreams' = upstreams /\ received' = received
            ELSE /\ upstreams'[e.i].events = upstreams[e.i].events + 1
                 /\ upstreams'[e.i].lastEvent = format(now)
                 /\ \A j \in DOMAIN upstreams : j # e.i => upstreams'[j] = upstreams[j] ]_vars

\* the last callback was an event on a zone nobody is registered for, on an
\* upstream whose counter is still 0 and whose timestamp is still null, while
\* another subscriber is registered (for a different zone)
C2_Witness ==
  /\ lastOp.op = "offtrack"
  /\ Registered(lastOp.zone) = {}
  /\ upstreams[lastOp.i].events = 0
  /\ upstreams[lastOp.i].lastEvent = Null
  /\ lxClients # <<>>

\* ------------------------------------------------------------------- C3
\* C3: a connection whose zone parameter is absent, empty or not in the
\* catalog under any casing is rejected and force-closed, and every
\* registered subscriber's zone is a member of the catalog.
C3_UnknownZoneRejected ==
  /\ (lastOp.op = "connection" /\ ~ InCatalogIgnoreCase(lastOp.demozone))
        => (~ lastOp.accepted /\ lastOp.closed)
  /\ \A k \in 1..Len(lxClients) : lxClients[k].demozone \in CatalogSet
  /\ \A id \in AcceptedIds : zoneOf[id] \in CatalogSet

\* a non-empty parameter that names no catalog zone was just rejected while a
\* subscriber is registered
C3_Witness ==
  /\ lastOp.op = "connection"
  /\ lastOp.demozone \notin { Undefined, <<>> }
  /\ ~ InCatalogIgnoreCase(lastOp.demozone)
  /\ ~ lastOp.accepted
  /\ lxClients # <<>>

\* ------------------------------------------------------------------- C4
\* C4: a connection whose zone parameter is, in any casing, an identifier of
\* the catalog is accepted and registered under that catalog identifier.
C4_AnyCasingAccepted ==
  (lastOp.op = "connection" /\ InCatalogIgnoreCase(lastOp.demozone))
     => /\ lastOp.accepted
        /\ lxClients # <<>>
        /\ lxClients[Len(lxClients)].id = lastOp.id
        /\ lxClients[Len(lxClients)].demozone \in CatalogSet
        /\ EqualsIgnoreCase(lxClients[Len(lxClients)].demozone, lastOp.demozone)

\* ------------------------------------------------------------------- C5
\* C5: a subscriber that has disconnected has been sent no event that arrived
\* after its disconnect, and every subscriber of the same zone that has not
\* disconnected has been sent every event of the zone that arrived after both
\* that disconnect and its own registration.
C5_DisconnectStopsOnlyThatSubscriber ==
  \A s \in DOMAIN leftAt :
    /\ \A m \in Range(received[s]) : m <= leftAt[s]
    /\ \A t \in AcceptedIds \ DOMAIN leftAt :
         zoneOf[t] = zoneOf[s] =>
           \A k \in 1..Len(log) :
             (log[k].zone = zoneOf[s] /\ k > leftAt[s] /\ k > joinedAt[t])
                => log[k].msg \in Range(received[t])

\* s and t registered for the same zone and were both sent an event, then s
\* disconnected and a later event of the zone reached t only
C5_Witness ==
  \E s \in DOMAIN leftAt : \E t \in AcceptedIds \ DOMAIN leftAt :
    /\ zoneOf[t] = zoneOf[s]
    /\ received[s] # <<>>
    /\ Len(received[t]) > Len(received[s])
    /\ \E k \in 1..Len(log) : log[k].zone = zoneOf[s] /\ k > leftAt[s]

\* ------------------------------------------------------------------- C6
\* C6: the registry holds exactly one entry for every accepted connection
\* whose transport is open, and no entry for any other connection.
C6_RegistryIsOpenTransports ==
  /\ Ids(lxClients) = open
  /\ Len(lxClients) = Cardinality(open)

\* an error was just reported on an open connection after another connection
\* had disconnected
C6_Witness ==
  /\ lastOp.op = "error"
  /\ DOMAIN leftAt # {}
  /\ lastOp.id \in open

\* ------------------------------------------------------------------- C7
\* C7: the ids given to accepted connections are strictly increasing in
\* acceptance order (hence never given twice).
C7_IdsStrictlyIncreasing ==
  \A j, k \in 1..Len(allocated) : j < k => allocated[j] < allocated[k]

\* a connection was just accepted after an earlier one had been accepted and
\* had disconnected
C7_Witness ==
  /\ lastOp.op = "connection"
  /\ lastOp.accepted
  /\ Len(allocated) >= 2
  /\ Len(lxClients) = 1

\* ------------------------------------------------------------------- C8
\* C8 (as claimed): after a disconnect or an error notification of a
\* registered subscriber, the subscriber is no longer in the registry.
C8_RemovedOnDisconnectOrError ==
  lastOp.op \in { "disconnect", "error" } => lastOp.id \notin Ids(lxClients)

\* C8 (amended): a disconnect notification of a registered subscriber removes
\* it from the registry; an error notification only logs: it leaves the
\* registry unchanged, the subscriber staying registered until its disconnect.
C8_RemovedOnDisconnectOnly ==
  [][ /\ lastOp'.op = "disconnect" =>
           (lastOp'.id \in Ids(lxClients) /\ lastOp'.id \notin Ids(lxClients'))
      /\ lastOp'.op = "error" =>
           (lastOp'.id \in Ids(lxClients) /\ lxClients' = lxClients) ]_vars

\* one subscriber has disconnected and is gone from the registry, another one
\* just had an error reported and is still in it
C8_Witness ==
  /\ lastOp.op = "error"
  /\ lastOp.id \in Ids(lxClients)
  /\ \E s \in DOMAIN leftAt : s \notin Ids(lxClients)

\* ------------------------------------------------------------------- C9
\* C9: a rejected connection attempt changes neither the registry, nor the id
\* counter, nor any zone's event counter or last-event timestamp.
C9_RejectionChangesNothing ==
  [][ (lastOp'.op = "connection" /\ ~ lastOp'.accepted) =>
        /\ lxClients' = lxClients
        /\ cnxId' = cnxId
        /\ upstreams' = upstreams ]_vars

\* a connection was just rejected while a subscriber is registered and a zone
\* has counted an event
C9_Witness ==
  /\ lastOp.op = "connection"
  /\ ~ lastOp.accepted
  /\ lxClients # <<>>
  /\ cnxId > 0
  /\ \E i \in DOMAIN upstreams : upstreams[i].events > 0

\* ------------------------------------------------------------------ C10
\* C10: the d object of a zone is never destroyed; an upstream 'disconnect'
\* takes it out of the active list with its event counter and last-event
\* timestamp intact, and a later 'connect' puts the same object, with the
\* same counter and timestamp, back into the active list.
C10_EntrySurvivesReconnect ==
  [][ /\ DOMAIN upstreams' = DOMAIN upstreams \/ pc = "fetch"
      /\ \A i \in DOMAIN upstreams :
           /\ (connected[i] /\ ~ connected'[i]) =>
                (upstreams'[i] = upstreams[i] /\ i \notin Range(ankiClients'))
           /\ (~ connected[i] /\ connected'[i]) =>
                (upstreams'[i] = upstreams[i] /\ i \in Range(ankiClients')) ]_vars

\* an upstream that had already counted an event has just reconnected
C10_Witness ==
  /\ lastOp.op = "upconnect"
  /\ upstreams[lastOp.i].events > 0
  /\ upstreams[lastOp.i].lastEvent # Null
  /\ lastOp.i \in Range(ankiClients)

\* ---------------------------------------------------- history vocabulary
Occurrences(seq, x) == Cardinality({ k \in DOMAIN seq : seq[k] = x })

\* subscriber id was registered for the zone of the k-th event when it arrived
Due(id, k) ==
  /\ log[k].zone = zoneOf[id]
  /\ joinedAt[id] < k
  /\ id \in DOMAIN leftAt => k <= leftAt[id]

\* ------------------------------------------------------------------ C11
\* C11: no subscriber is ever sent an event that arrived before it
\* registered; in particular an event that found no subscriber is not kept
\* for a subscriber that registers later.
C11_NoReplay ==
  \A id \in AcceptedIds :
    \A k \in 1..Len(log) :
      k <= joinedAt[id] => log[k].msg \notin Range(received[id])

\* an event of a zone found no subscriber, a subscriber registered for that
\* zone afterwards and has since been sent a later event
C11_Witness ==
  \E id \in Ids(lxClients) :
    \E k \in 1..Len(log) :
      /\ k <= joinedAt[id]
      /\ log[k].zone = zoneOf[id]
      /\ \A other \in AcceptedIds : ~ Due(other, k)
      /\ received[id] # <<>>

\* ------------------------------------------------------------------ C12
\* C12: after a catalog fetch that failed or returned an empty list, the
\* process has exited, and neither the subscriber-facing server nor any
\* upstream connection exists.
C12_FailedFetchAborts ==
  (lastOp.op = "fetch" /\ (lastOp.resp.err \/ lastOp.resp.res = "json")) =>
    /\ pc = "exited"
    /\ upstreams = <<>>
    /\ open = {}

\* ------------------------------------------------------------------ C13
\* C13: the body of the zone-listing report is sorted, names no zone twice,
\* and names exactly the zones whose upstream connection is connected.
C13_ReportIsActiveZones ==
  lastOp.op = "demozones" =>
    LET body == lastOp.body
    IN  /\ \A j, k \in 1..Len(body) : j < k => stringLeq(body[j], body[k])
        /\ \A j, k \in 1..Len(body) : j # k => body[j] # body[k]
        /\ Range(body) = { upstreams[i].demozone : i \in { j \in DOMAIN upstreams : connected[j] } }

\* ------------------------------------------------------------------ C14
\* C14: no two entries of the active upstream list carry the same zone
\* identifier.
C14_OneEntryPerZone ==
  \A j, k \in 1..Len(ankiClients) :
    j # k => upstreams[ankiClients[j]].demozone # upstreams[ankiClients[k]].demozone

C16_RemovalIdempotent ==
  \A id \in 1..(cnxId + 1) :
    /\ id \notin Ids(lxClients) => removeById(lxClients, id) = lxClients
    /\ Ids(removeById(lxClients, id)) = Ids(lxClients) \ { id }
    /\ removeById(removeById(lxClients, id), id) = removeById(lxClients, id)

\* a subscriber has just been removed by its disconnect and others remain
\* registered, so a second removal of its id has entries it could destroy
C16_Witness ==
  /\ lastOp.op = "disconnect"
  /\ lastOp.id \notin Ids(lxClients)
  /\ lxClients # <<>>

\* ------------------------------------------------------------------ C17
\* C17: no connection has two registry entries, and every event has been
\* emitted exactly once to each subscriber that was registered for its zone
\* when it arrived, and not at all to anyone else.
C17_ExactlyOnce ==
  /\ Len(lxClients) = Cardinality(Ids(lxClients))
  /\ \A id \in AcceptedIds :
       \A k \in 1..Len(log) :
         Occurrences(received[id], log[k].msg) = IF Due(id, k) THEN 1 ELSE 0

\* an event has just been fanned out to two subscribers of the same zone
C17_Witness ==
  /\ lastOp.op = "offtrack"
  /\ Cardinality(Registered(lastOp.zone)) >= 2
  /\ \A t \in Registered(lastOp.zone) : lastOp.msg \in Range(received[t])

\* ------------------------------------------------------------------ C18
\* C18: what a subscriber has been sent is in arrival order: an event that
\* arrived earlier comes before one that arrived later.
C18_ArrivalOrder ==
  \A id \in AcceptedIds :
    \A j, k \in 1..Len(received[id]) :
      j < k => received[id][j] < received[id][k]

\* a registered subscriber has been sent two events
C18_Witness ==
  \E id \in Ids(lxClients) : Len(received[id]) >= 2

\* ------------------------------------------------------------------ C19
\* C19: the event counter of an upstream connection is the number of events
\* it received while at least one subscriber was registered for its zone, its
\* last-event timestamp is null exactly when that counter is 0, and the
\* counter never decreases.
C19_CounterCountsForwardedEvents ==
  /\ [](\A i \in DOMAIN upstreams :
          /\ upstreams[i].events =
               Cardinality({ k \in 1..Len(log) :
                               log[k].i = i /\ \E id \in AcceptedIds : Due(id, k) })
          /\ (upstreams[i].lastEvent = Null) <=> (upstreams[i].events = 0))
  /\ [][ \A i \in DOMAIN upstreams :
           i \in DOMAIN upstreams' /\ upstreams'[i].events >= upstreams[i].events ]_vars

\* an upstream has counted one event and ignored another
C19_Witness ==
  \E i \in DOMAIN upstreams :
    /\ upstreams[i].events = 1
    /\ upstreams[i].lastEvent # Null
    /\ Cardinality({ k \in 1..Len(log) : log[k].i = i }) = 2

====
